---- MODULE Spec2Model ----
(***************************************************************************)
(* Model of the CodeAct retrieval agent:                                   *)
(*   - Agent (src/codeact_retrieval/agent.py): the tool-calling loop over  *)
(*     the conversation history;                                           *)
(*   - PersistentKernel (src/codeact_retrieval/utils/persistent_kernel.py):*)
(*     the stateful code-execution kernel with its execution threads.      *)
(* Spec drives the Agent of main.py against an arbitrary completion        *)
(* service and arbitrary tool callables; SessionSpec does so for an Agent  *)
(* constructed with any message list; KernelSpec drives the kernel from    *)
(* one caller; AgentKernelSpec drives the Agent of main.py with its        *)
(* code_execution tool running on the kernel.                              *)
(***************************************************************************)
EXTENDS Integers, Sequences, FiniteSets, TLC

\* ------------------------------------------------------------------ bounds
MaxQueries == 2      \* query() calls per session
MaxRequests == 2     \* tool requests issued by the completion service per session
MaxPerTurn == 2      \* tool requests carried by one assistant message
MaxCalls == 2        \* calls of execute / execute_background / reset per kernel
Timeout == 1         \* the kernel's timeout (PersistentKernel(timeout=...)), in ticks

VARIABLES
    \* ---- Agent
    initial,      \* the messages list the Agent was constructed with (never changes)
    messages,     \* self.messages
    pc,           \* position of query(): "idle" | "api" | "tools" | "kernel"
    pending,      \* the tool_calls of the assistant turn being processed
    idx,          \* index in pending of the next tool_call of _process_tool_calls
    nextId,       \* next fresh tool_call id of the completion service
    queries,      \* number of query() calls started
    ended,        \* how the last query() ended: "none" | "return" | "fault"
    ret,          \* value returned by the last query() that returned
    lastDispatch, \* what the iteration of _process_tool_calls just taken did
    faulted,      \* ids of the requests whose dispatch let a fault escape
    \* ---- PersistentKernel
    imports,      \* self.imports: "" or the bootstrap source
    baseline,     \* the namespace as it stood when __init__ returned (never changes)
    namespace,    \* self.namespace: name -> value, Unbound where the name is not bound
    threads,      \* every thread started by the kernel, in the order of their start
    background_threads,  \* self.background_threads: ids (indexes in threads)
    stdout,       \* sys.stdout: "process" or "capture" (the StringIO of the call)
    captured,     \* text written to captured_output of the current execute call
    console,      \* text written to the process's own output stream
    kpc,          \* position of the caller: "idle" | "join" | "sleep"
    cur,          \* the thread started by the call in progress
    elapsed,      \* ticks spent in exec_thread.join(timeout)
    result,       \* the value returned by the last execute / execute_background
    lastCall,     \* the last kernel call: operation, code, thread started
    calls         \* number of kernel calls made

agentVars == <<initial, messages, pc, pending, idx, nextId, queries, ended, ret,
               lastDispatch, faulted>>

kernelVars == <<imports, baseline, namespace, threads, background_threads, stdout, captured,
                console, kpc, cur, elapsed, result, lastCall, calls>>

vars == <<agentVars, kernelVars>>

\* ------------------------------------------------------------ Agent: data
NoText == <<>>

SystemMessage(prompt) ==
    [role |-> "system", content |-> prompt, tool_calls |-> <<>>,
     tool_call_id |-> 0, name |-> ""]

UserMessage(prompt) ==
    [role |-> "user", content |-> prompt, tool_calls |-> <<>>,
     tool_call_id |-> 0, name |-> ""]

AssistantMessage(content, tool_calls) ==
    [role |-> "assistant", content |-> content, tool_calls |-> tool_calls,
     tool_call_id |-> 0, name |-> ""]

ToolMessage(resp) ==
    [role |-> "tool", content |-> resp.tool_response, tool_calls |-> <<>>,
     tool_call_id |-> resp.tool_call_id, name |-> resp.tool_name]

system_prompt == <<"system prompt">>

\* The tools the Agent is constructed with (TOOLS_SCHEMA plus one more tool, so
\* that a registered tool other than code_execution exists).
Tools ==
    << [type |-> "function", name |-> "code_execution", callable |-> TRUE],
       [type |-> "function", name |-> "code_search", callable |-> TRUE] >>

\* A registry that resolves every name a request may carry.
ToolFunctions_EveryName == {"code_execution", "code_search", "no_such_tool"}

\* self._tool_functions: the names of the tools that have a callable.
ToolFunctions ==
    { Tools[i].name : i \in { j \in 1..Len(Tools) :
          Tools[j].type = "function" /\ Tools[j].name # "" /\ Tools[j].callable } }

\* Tool names the completion service may put in a request.
ToolNames == ToolFunctions \cup {"no_such_tool"}

\* Argument payloads of a request, by what json.loads makes of them:
\* text that does not parse, an object, an array, the value null.
Payloads == {"malformed", "object", "array", "null"}

\* Argument objects, one of them with a "kernel" key of the model's own.
InjectionPayloads == {"object", "object with kernel"}

\* The Agent's kernel, the value of a payload's own "kernel" key, no value.
LiveKernel == "self.kernel"
PayloadKernel == "kernel of the payload"
NoKernel == "none"

\* Faults a tool callable may raise.
CaughtFaults == {"TypeError", "ValueError", "AttributeError", "RuntimeError"}
ToolFaults == CaughtFaults \cup {"NotImplementedError", "KeyError", "OSError"}

\* Python's exception hierarchy, as far as the faults above go.
BaseClass(f) == IF f = "NotImplementedError" THEN "RuntimeError" ELSE f

\* Outcomes of invoking a callable with well-formed keyword arguments.
Outcomes ==
    {[kind |-> "return", fault |-> "none"]} \cup
    {[kind |-> "raise", fault |-> f] : f \in ToolFaults}

\* Message lists an Agent may be constructed with.
InitialHistories ==
    { <<>>,
      <<SystemMessage(system_prompt)>>,
      <<UserMessage(<<"earlier prompt">>)>>,
      <<UserMessage(<<"earlier prompt">>), SystemMessage(<<"other system">>)>>,
      <<SystemMessage(system_prompt), UserMessage(<<"earlier prompt">>),
        AssistantMessage(<<"earlier answer">>, <<>>)>> }

PyNone == <<"<None>">>
EmptyText == <<>>

\* ------------------------------------------------- Agent: pure functions
\* _set_system_prompt without its elif branch.
SetSystemPrompt_OnlyWhenEmpty(msgs, prompt) ==
    IF msgs = <<>> THEN Append(msgs, SystemMessage(prompt)) ELSE msgs

\* _set_system_prompt without the test of the first message's role.
SetSystemPrompt_AlwaysInsert(msgs, prompt) ==
    <<SystemMessage(prompt)>> \o msgs

\* _set_system_prompt: append to an empty history, insert at the head of a
\* history whose first message is not a system message, else nothing.
SetSystemPrompt(msgs, prompt) ==
    IF msgs = <<>> THEN Append(msgs, SystemMessage(prompt))
    ELSE IF msgs[1].role # "system" THEN <<SystemMessage(prompt)>> \o msgs
    ELSE msgs

\* json.loads of an argument payload: a JSONDecodeError, or the value.
JsonLoads(arguments) ==
    IF arguments = "malformed"
    THEN [error |-> "JSONDecodeError", value |-> "none"]
    ELSE [error |-> "none", value |-> arguments]

\* `"code" in args`: defined on an object and on an array, a TypeError on null.
ContainsRaises(value) == value = "null"

\* The value json.loads returned is a dict.
IsObject(value) == value \in InjectionPayloads

\* `tool_args["kernel"] = self.kernel`: defined on an object only.
SetItemRaises(value) == ~IsObject(value)

\* `tool_function(**tool_args)`: the argument after ** must be a mapping.
UnpackRaises(value) == ~IsObject(value)

\* An injection that keeps the "kernel" key a payload already has.
KernelArgument_PayloadWins(name, value) ==
    IF value = "object with kernel" THEN "kernel of the payload"
    ELSE IF name = "code_execution" THEN "self.kernel"
    ELSE "none"

\* tool_args["kernel"] after the parse of _execute_tool_call: self.kernel for
\* code_execution (the assignment replaces a key of the payload), else what
\* the payload holds.
KernelArgument(name, value) ==
    IF name = "code_execution" THEN LiveKernel
    ELSE IF value = "object with kernel" THEN PayloadKernel
    ELSE NoKernel

\* tool_args of _execute_tool_call: {} after a parse error.
ToolArgs(tool_call) ==
    LET parsed == JsonLoads(tool_call.arguments) IN
    IF parsed.error # "none" THEN [payload |-> "{}", kernel |-> NoKernel]
    ELSE [payload |-> parsed.value,
          kernel |-> KernelArgument(tool_call.name, parsed.value)]

\* clean_tools of _make_api_call: type and name (description, parameters) of
\* every function tool, without its callable.
CleanTools ==
    [i \in { j \in 1..Len(Tools) : Tools[j].type = "function" } |->
        [type |-> "function", name |-> Tools[i].name]]

\* The display step of _process_tool_calls (its try catches JSONDecodeError
\* only): the fault it lets escape, or "none".
PrintArguments(tool_call) ==
    LET parsed == JsonLoads(tool_call.arguments) IN
    IF parsed.error # "none" THEN "none"
    ELSE IF tool_call.name = "code_execution" /\ ContainsRaises(parsed.value)
         THEN "TypeError"
         ELSE "none"

\* except Exception
IsCaught_Everything(fault) == TRUE

\* except (TypeError, ValueError, AttributeError, RuntimeError)
IsCaught(fault) == BaseClass(fault) \in CaughtFaults

Response(tool_call, text) ==
    [tool_call_id |-> tool_call.id, tool_name |-> tool_call.name,
     tool_args |-> ToolArgs(tool_call), tool_response |-> text]

NoResponse ==
    [tool_call_id |-> 0, tool_name |-> "",
     tool_args |-> [payload |-> "{}", kernel |-> NoKernel],
     tool_response |-> NoText]

ParseErrorText == <<"Error parsing tool arguments: ", "<detail>">>
NotFoundText(name) == <<"Error: Tool '", name, "' not found">>
ExecErrorText(name) == <<"Error executing tool '", name, "': ", "<detail>">>
ResultText(name) == <<"<result of ", name, ">">>

\* _execute_tool_call. outcome is what the callable does if it is entered.
\* raised: the fault that escapes ("none" if the call returns a response);
\* invoked: the callable was entered; kernel: what it received as kernel.
ExecuteToolCall(tool_call, outcome) ==
    LET parsed == JsonLoads(tool_call.arguments)
        name == tool_call.name
        Out(raised, text, invoked, kernel) ==
            [raised |-> raised,
             response |-> IF raised = "none" THEN Response(tool_call, text)
                          ELSE NoResponse,
             invoked |-> invoked, kernel |-> kernel]
    IN
    IF parsed.error # "none"
    THEN Out("none", ParseErrorText, FALSE, NoKernel)
    ELSE IF name = "code_execution" /\ SetItemRaises(parsed.value)
    THEN Out("TypeError", NoText, FALSE, NoKernel)
    ELSE IF name \notin ToolFunctions
    THEN Out("none", NotFoundText(name), FALSE, NoKernel)
    ELSE IF UnpackRaises(parsed.value)
    THEN IF IsCaught("TypeError")
         THEN Out("none", ExecErrorText(name), FALSE, NoKernel)
         ELSE Out("TypeError", NoText, FALSE, NoKernel)
    ELSE IF outcome.kind = "return"
    THEN Out("none", ResultText(name), TRUE, KernelArgument(name, parsed.value))
    ELSE IF IsCaught(outcome.fault)
    THEN Out("none", ExecErrorText(name), TRUE, KernelArgument(name, parsed.value))
    ELSE Out(outcome.fault, NoText, TRUE, KernelArgument(name, parsed.value))

\* One iteration of the loop of _process_tool_calls, up to the append.
ProcessToolCall(tool_call, outcome) ==
    IF PrintArguments(tool_call) # "none"
    THEN [raised |-> PrintArguments(tool_call), response |-> NoResponse,
          invoked |-> FALSE, kernel |-> NoKernel]
    ELSE ExecuteToolCall(tool_call, outcome)

\* An append that leaves out the responses that report a parse error.
AppendToolMessage_SkipParseErrors(msgs, response) ==
    IF response.tool_response = <<"Error parsing tool arguments: ", "<detail>">>
    THEN msgs
    ELSE Append(msgs, [role |-> "tool", content |-> response.tool_response,
                       tool_calls |-> <<>>,
                       tool_call_id |-> response.tool_call_id,
                       name |-> response.tool_name])

\* The append that ends an iteration of _process_tool_calls.
AppendToolMessage(msgs, response) == Append(msgs, ToolMessage(response))

\* The tool requests a completion may carry: n requests with fresh ids.
ToolCallsOf(n, first, names, payloads) ==
    { tcs \in [1..n -> [id : first..(first + n - 1), name : names,
                        arguments : payloads]] :
        \A i \in 1..n : tcs[i].id = first + i - 1 }

NoDispatch ==
    [call |-> [id |-> 0, name |-> "", arguments |-> ""],
     invoked |-> FALSE, outcome |-> [kind |-> "none", fault |-> "none"],
     raised |-> "none", kernel |-> NoKernel]

NoReturn == [content |-> PyNone, tool_calls |-> "unset"]

\* A return value that hands the content on as it is.
QueryReturn_KeepsNull(message) ==
    [content |-> message.content, tool_calls |-> "None"]

\* The value query() returns for the final assistant message:
\* {"content": content or "", "tool_calls": tool_calls or None}.
QueryReturn(message) ==
    [content |-> IF message.content = PyNone THEN EmptyText ELSE message.content,
     tool_calls |-> IF message.tool_calls = <<>> THEN "None" ELSE "requests"]

\* ----------------------------------------------------------- Kernel: data
Unbound == "<unbound>"
Names == {"x", "m", "f"}   \* x: a user variable; m: bound by the bootstrap
                           \* imports; f: a function of the initial namespace

EmptyNamespace == [n \in Names |-> Unbound]

\* Statements of submitted code.
Assign(n, v) == [op |-> "assign", name |-> n, val |-> v]
PrintName(n) == [op |-> "print", name |-> n, val |-> ""]
Raise == [op |-> "raise", name |-> "", val |-> ""]
Spin == [op |-> "spin", name |-> "", val |-> ""]

\* Code strings: whether ast.parse accepts them, and their statements.
Code(text, valid, body) == [text |-> text, valid |-> valid, body |-> body]

CodeAssign == Code("x = 2", TRUE, <<Assign("x", "2")>>)
CodePrint == Code("print(x)", TRUE, <<PrintName("x")>>)
CodeRaise == Code("x = 1; print(x); raise ValueError()", TRUE,
                  <<Assign("x", "1"), PrintName("x"), Raise>>)
CodeInvalid == Code("x = (", FALSE, <<>>)
CodeLoop == Code("print(m); while True: pass", TRUE, <<PrintName("m"), Spin>>)

Codes == {CodeAssign, CodePrint, CodeRaise, CodeInvalid, CodeLoop}

\* Code that starts a web server: its serve() call does not return.
CodeServe == Code("serve()", TRUE, <<Spin>>)

\* Code strings the completion service passes to the code_execution tool.
ToolCodes == {CodeServe, CodeAssign, CodePrint}

\* The bootstrap source "import m".
ImportsCode == Code("import m", TRUE, <<Assign("m", "<module m>")>>)

NoCode == Code("", TRUE, <<>>)

\* ------------------------------------------------ Kernel: pure functions
\* The fault a statement raises in a namespace, or "none".
StatementFault(stmt, ns) ==
    IF stmt.op = "raise" THEN "ValueError"
    ELSE IF stmt.op = "print" /\ ns[stmt.name] = Unbound THEN "NameError"
    ELSE "none"

\* The namespace after a statement that raised nothing.
StatementNamespace(stmt, ns) ==
    IF stmt.op = "assign" THEN [ns EXCEPT ![stmt.name] = stmt.val] ELSE ns

\* The text a statement that raised nothing writes to sys.stdout.
StatementOutput(stmt, ns) ==
    IF stmt.op = "print" THEN <<ns[stmt.name]>> ELSE <<>>

\* exec(code, self.namespace) run to its end in one go (the bootstrap imports
\* run in the caller's thread): the resulting namespace.
RECURSIVE RunAll(_, _, _)
RunAll(body, i, ns) ==
    IF i > Len(body) \/ StatementFault(body[i], ns) # "none" THEN ns
    ELSE RunAll(body, i + 1, StatementNamespace(body[i], ns))

\* __init__: namespace or {}, then _safe_exec(imports) if imports is not empty.
ConstructNamespace(ns, imp) ==
    IF imp # "" THEN RunAll(ImportsCode.body, 1, ns) ELSE ns

\* A reset() that clears and does not run the imports again.
ResetNamespace_ClearOnly(ns, imp) == [n \in DOMAIN ns |-> "<unbound>"]

\* reset(): namespace.clear(), then _safe_exec(imports) if imports is not empty.
ResetNamespace(ns, imp) ==
    IF imp # "" THEN RunAll(ImportsCode.body, 1, EmptyNamespace) ELSE EmptyNamespace

\* A namespace made anew for every execution.
ExecNamespace_Fresh(ns) == [n \in DOMAIN ns |-> "<unbound>"]

\* exec(code, self.namespace): the namespace an execution runs in is the
\* kernel's own.
ExecNamespace(ns) == ns

Thread(code, kind) ==
    [code |-> code, kind |-> kind, pos |-> 0, state |-> "running", fault |-> "none"]

IsAlive(t) == threads[t].state = "running"

NoneValue == <<"<None>">>
TimeoutText == <<"Execution timed out after ", "<timeout>", " seconds">>
NotAStringText == <<"Code must be a string">>
SyntaxErrorText == <<"Invalid Python syntax: ", "<detail>">>
\* Output text is a sequence of items, each with the thread that wrote it (0:
\* text of the kernel itself).
BackgroundText == <<[by |-> 0, text |-> "Code started in background thread"]>>

\* A join that does not wait at all.
JoinDone_NoWait(alive, waited) == TRUE

\* join() without its timeout.
JoinDone_NoTimeout(alive, waited) == ~alive

\* exec_thread.join(timeout=self.timeout) returns when the thread has ended or
\* the timeout has expired.
JoinDone(alive, waited) == ~alive \/ waited = Timeout

\* An execute that fails ever after some thread of the kernel ended by a fault.
ExecuteResult_Poisoned(alive, output) ==
    IF alive
    THEN [success |-> FALSE, output |-> output,
          error |-> <<"Execution timed out after ", "<timeout>", " seconds">>]
    ELSE IF \E t \in 1..Len(threads) : threads[t].state = "raised"
    THEN [success |-> FALSE, output |-> output, error |-> <<"kernel unusable">>]
    ELSE [success |-> TRUE, output |-> output, error |-> <<"<None>">>]

\* The value execute returns after join: the TimeoutError raised when the thread
\* is still alive is caught by `except Exception`; otherwise success.
ExecuteResult(alive, output) ==
    IF alive
    THEN [success |-> FALSE, output |-> output, error |-> TimeoutText]
    ELSE [success |-> TRUE, output |-> output, error |-> NoneValue]

\* An execute_background that checks the syntax of the code before it answers.
BackgroundResult_ChecksSyntax(code) ==
    IF code.valid
    THEN [success |-> TRUE,
          output |-> <<[by |-> 0, text |-> "Code started in background thread"]>>,
          error |-> <<"<None>">>]
    ELSE [success |-> FALSE, output |-> <<>>,
          error |-> <<"Invalid Python syntax: ", "<detail>">>]

\* The value execute_background returns.
BackgroundResult(code) ==
    [success |-> TRUE, output |-> BackgroundText, error |-> NoneValue]

\* No clean-up of the finished threads.
Prune_Nothing(ids) == ids

\* background_threads = [t for t in background_threads if t.is_alive()]
Prune(ids) == SelectSeq(ids, IsAlive)

\* The text of an output, as a message content.
TextOf(output) == [i \in 1..Len(output) |-> output[i].text]

\* code_execution(code, kernel), given the result of kernel.execute(code):
\* result["output"] if result["success"] else f"Error: {result['error']}"
CodeExecution(res) ==
    IF res.success THEN TextOf(res.output) ELSE <<"Error: ">> \o res.error

NoResult == [success |-> FALSE, output |-> <<>>, error |-> <<"<no call yet>">>]
NoCall == [op |-> "none", code |-> NoCode, thread |-> 0]

\* The kernel as constructed from an initial namespace and a bootstrap string.
KernelInit(ns, imp) ==
    /\ imports = imp
    /\ baseline = ConstructNamespace(ns, imp)
    /\ namespace = baseline
    /\ threads = <<>>
    /\ background_threads = <<>>
    /\ stdout = "process"
    /\ captured = <<>>
    /\ console = <<>>
    /\ kpc = "idle"
    /\ cur = 0
    /\ elapsed = 0
    /\ result = NoResult
    /\ lastCall = NoCall
    /\ calls = 0

\* FUNCTIONS of main.py: the namespace the agent's kernel is constructed with.
FunctionsNamespace == [EmptyNamespace EXCEPT !["f"] = "<function f>"]

\* ---------------------------------------------------------- Agent: steps
AgentInit(history) ==
    /\ initial = history
    /\ messages = initial
    /\ pc = "idle"
    /\ pending = <<>>
    /\ idx = 0
    /\ nextId = 1
    /\ queries = 0
    /\ ended = "none"
    /\ ret = NoReturn
    /\ lastDispatch = NoDispatch
    /\ faulted = {}

\* The agent of main.py: no messages given, the kernel over FUNCTIONS.
Init ==
    /\ AgentInit(<<>>)
    /\ KernelInit(FunctionsNamespace, "")

\* An agent constructed with any message list.
SessionInit ==
    /\ \E history \in InitialHistories : AgentInit(history)
    /\ KernelInit(FunctionsNamespace, "")

\* query(), up to its first completion request.
Query ==
    /\ pc = "idle"
    /\ queries < MaxQueries
    /\ messages' = Append(SetSystemPrompt(messages, system_prompt),
                          UserMessage(<<"prompt">>))
    /\ pc' = "api"
    /\ queries' = queries + 1
    /\ ended' = "none"
    /\ lastDispatch' = NoDispatch
    /\ UNCHANGED <<initial, pending, idx, nextId, ret, faulted>>
    /\ UNCHANGED kernelVars

\* The completion service answers (completion() is taken to return: its retries
\* and failures are the service's): the assistant message is appended, and
\* query() returns if it carries no tool requests. names and payloads are the
\* tool names and argument payloads the requests are drawn from.
CompletionReturnsOf(names, payloads) ==
    /\ pc = "api"
    /\ \E n \in 0..MaxPerTurn, content \in {<<"answer">>, PyNone} :
         /\ (nextId - 1) + n <= MaxRequests
         \* the content of a message that carries requests is not read by the loop
         /\ n > 0 => content = PyNone
         /\ \E tcs \in ToolCallsOf(n, nextId, names, payloads) :
              /\ messages' = Append(messages, AssistantMessage(content, tcs))
              /\ nextId' = nextId + n
              /\ IF n > 0
                 THEN /\ pc' = "tools"
                      /\ pending' = tcs
                      /\ idx' = 1
                      /\ UNCHANGED <<ret, ended>>
                 ELSE /\ pc' = "idle"
                      /\ pending' = <<>>
                      /\ idx' = 0
                      /\ ended' = "return"
                      /\ ret' = QueryReturn(AssistantMessage(content, tcs))
    /\ lastDispatch' = NoDispatch
    /\ UNCHANGED <<initial, queries, faulted>>
    /\ UNCHANGED kernelVars

CompletionReturns == CompletionReturnsOf(ToolNames, Payloads)

\* The same with requests for code_execution only, of an object or of null.
SessionCompletionReturns ==
    CompletionReturnsOf({"code_execution"}, {"object", "null"})

\* One iteration of _process_tool_calls: display, execute, append; after the
\* last tool_call the loop of query() goes on to the next completion request.
DispatchToolCall ==
    /\ pc = "tools"
    /\ \E outcome \in Outcomes :
         LET tool_call == pending[idx]
             r == ProcessToolCall(tool_call, outcome)
         IN
         /\ lastDispatch' =
                [call |-> tool_call, invoked |-> r.invoked,
                 outcome |-> IF r.invoked THEN outcome ELSE NoDispatch.outcome,
                 raised |-> r.raised, kernel |-> r.kernel]
         /\ IF r.raised # "none"
            THEN /\ messages' = messages
                 /\ faulted' = faulted \cup {tool_call.id}
                 /\ pc' = "idle"
                 /\ ended' = "fault"
                 /\ pending' = <<>>
                 /\ idx' = 0
            ELSE /\ messages' = AppendToolMessage(messages, r.response)
                 /\ faulted' = faulted
                 /\ ended' = ended
                 /\ IF idx = Len(pending)
                    THEN pc' = "api" /\ pending' = <<>> /\ idx' = 0
                    ELSE pc' = "tools" /\ pending' = pending /\ idx' = idx + 1
    /\ UNCHANGED <<initial, nextId, queries, ret>>
    /\ UNCHANGED kernelVars

\* --------------------------------------------------------- Kernel: steps
\* A print whose text reaches the StringIO of a call only from that call's thread.
Emit_ThreadLocal(t, text) ==
    LET items == [i \in 1..Len(text) |-> [by |-> t, text |-> text[i]]] IN
    IF stdout = "capture" /\ t = cur
    THEN captured' = captured \o items /\ console' = console
    ELSE console' = console \o items /\ captured' = captured

\* print(...) in thread t: the text goes to whatever sys.stdout is at that moment.
Emit(t, text) ==
    LET items == [i \in 1..Len(text) |-> [by |-> t, text |-> text[i]]] IN
    IF stdout = "capture"
    THEN captured' = captured \o items /\ console' = console
    ELSE console' = console \o items /\ captured' = captured

\* The thread ends by a fault. A thread of execute dies with it (Python reports
\* it on stderr and nowhere else); run_code of execute_background catches it and
\* prints it.
ThreadRaises(t, fault) ==
    /\ threads' = [threads EXCEPT ![t].state = "raised", ![t].fault = fault]
    /\ IF threads[t].kind = "background"
       THEN Emit(t, <<"Background execution error">>)
       ELSE UNCHANGED <<captured, console>>
    /\ UNCHANGED namespace

\* execute(code) with code that is not a string.
ExecuteNotAString ==
    /\ kpc = "idle"
    /\ calls < MaxCalls
    /\ calls' = calls + 1
    /\ result' = [success |-> FALSE, output |-> <<>>, error |-> NotAStringText]
    /\ lastCall' = [op |-> "execute", code |-> NoCode, thread |-> 0]
    /\ UNCHANGED <<imports, baseline, namespace, threads, background_threads, stdout, captured,
                   console, kpc, cur, elapsed>>
    /\ UNCHANGED agentVars

\* execute(code), up to exec_thread.join: sys.stdout is replaced by a fresh
\* StringIO and the thread is started.
ExecuteStarts(code) ==
    /\ kpc = "idle"
    /\ threads' = Append(threads, Thread(code, "execute"))
    /\ lastCall' = [op |-> "execute", code |-> code, thread |-> Len(threads) + 1]
    /\ cur' = Len(threads) + 1
    /\ calls' = calls + 1
    /\ stdout' = "capture"
    /\ captured' = <<>>
    /\ elapsed' = 0
    /\ kpc' = "join"
    /\ UNCHANGED <<imports, baseline, namespace, background_threads, console, result>>

\* execute(code) called on the kernel alone.
Execute ==
    /\ calls < MaxCalls
    /\ \E code \in Codes : ExecuteStarts(code)
    /\ UNCHANGED agentVars

\* A thread runs _safe_exec one step further: ast.parse first, then the
\* statements of the code one by one. A thread at `while True: pass` takes no step.
ThreadStep ==
    /\ \E t \in 1..Len(threads) :
         LET th == threads[t]
             body == th.code.body
         IN
         /\ th.state = "running"
         /\ IF th.pos = 0
            THEN IF ~th.code.valid
                 THEN ThreadRaises(t, "SyntaxError")
                 ELSE /\ threads' = [threads EXCEPT ![t].pos = 1,
                            ![t].state = IF body = <<>> THEN "done" ELSE "running"]
                      /\ namespace' = ExecNamespace(namespace)
                      /\ UNCHANGED <<captured, console>>
            ELSE LET stmt == body[th.pos] IN
                 /\ stmt.op # "spin"
                 /\ IF StatementFault(stmt, namespace) # "none"
                    THEN ThreadRaises(t, StatementFault(stmt, namespace))
                    ELSE /\ namespace' = StatementNamespace(stmt, namespace)
                         /\ Emit(t, StatementOutput(stmt, namespace))
                         /\ threads' = [threads EXCEPT ![t].pos = th.pos + 1,
                               ![t].state = IF th.pos = Len(body) THEN "done"
                                            ELSE "running"]
    /\ UNCHANGED <<imports, baseline, background_threads, stdout, kpc, cur, elapsed, result,
                   lastCall, calls>>
    /\ UNCHANGED agentVars

\* Time passes while the caller waits in join and the thread is alive.
Tick ==
    /\ kpc = "join"
    /\ IsAlive(cur)
    /\ elapsed < Timeout
    /\ elapsed' = elapsed + 1
    /\ UNCHANGED <<imports, baseline, namespace, threads, background_threads, stdout, captured,
                   console, kpc, cur, result, lastCall, calls>>
    /\ UNCHANGED agentVars

\* The rest of execute: exec_thread.join(timeout) returns because the thread has
\* ended or the timeout has expired; then is_alive, the result, and sys.stdout
\* restored (finally).
\* A return of execute that ends the thread that is still alive.
ExecuteEnds_Terminates ==
    /\ kpc = "join"
    /\ JoinDone(IsAlive(cur), elapsed)
    /\ result' = ExecuteResult(IsAlive(cur), captured)
    /\ threads' = [threads EXCEPT ![cur].state =
                       IF IsAlive(cur) THEN "killed" ELSE @]
    /\ stdout' = "process"
    /\ kpc' = "idle"
    /\ captured' = <<>> /\ cur' = 0 /\ elapsed' = 0
    /\ UNCHANGED <<imports, baseline, namespace, background_threads, console,
                   lastCall, calls>>

ExecuteEnds ==
    /\ kpc = "join"
    /\ JoinDone(IsAlive(cur), elapsed)
    /\ result' = ExecuteResult(IsAlive(cur), captured)
    /\ stdout' = "process"
    /\ kpc' = "idle"
    /\ captured' = <<>> /\ cur' = 0 /\ elapsed' = 0     \* locals of the call
    /\ UNCHANGED <<imports, baseline, namespace, threads, background_threads, console,
                   lastCall, calls>>

\* The return of an execute called on the kernel alone.
ExecuteReturns ==
    /\ ExecuteEnds
    /\ UNCHANGED agentVars

\* execute_background(code), up to time.sleep: the thread is started and tracked.
ExecuteBackground ==
    /\ kpc = "idle"
    /\ calls < MaxCalls
    /\ \E code \in Codes :
         /\ threads' = Append(threads, Thread(code, "background"))
         /\ lastCall' = [op |-> "execute_background", code |-> code,
                         thread |-> Len(threads) + 1]
    /\ background_threads' = Append(background_threads, Len(threads) + 1)
    /\ cur' = Len(threads) + 1
    /\ calls' = calls + 1
    /\ kpc' = "sleep"
    /\ UNCHANGED <<imports, baseline, namespace, stdout, captured, console, elapsed, result>>
    /\ UNCHANGED agentVars

\* The rest of execute_background, after the sleep: prune, acknowledge.
BackgroundReturns ==
    /\ kpc = "sleep"
    /\ background_threads' = Prune(background_threads)
    /\ result' = BackgroundResult(lastCall.code)
    /\ kpc' = "idle"
    /\ cur' = 0
    /\ UNCHANGED <<imports, baseline, namespace, threads, stdout, captured, console,
                   elapsed, lastCall, calls>>
    /\ UNCHANGED agentVars

\* reset()
Reset ==
    /\ kpc = "idle"
    /\ calls < MaxCalls
    /\ calls' = calls + 1
    /\ namespace' = ResetNamespace(namespace, imports)
    /\ lastCall' = [op |-> "reset", code |-> NoCode, thread |-> 0]
    /\ UNCHANGED <<imports, baseline, threads, background_threads, stdout, captured, console,
                   kpc, cur, elapsed, result>>
    /\ UNCHANGED agentVars

KernelSpecInit ==
    /\ AgentInit(<<>>)
    /\ \E ns \in {EmptyNamespace, FunctionsNamespace}, imp \in {"", "import m"} :
         KernelInit(ns, imp)

KernelNext ==
    \/ ExecuteNotAString
    \/ Execute
    \/ ThreadStep
    \/ Tick
    \/ ExecuteReturns
    \/ ExecuteBackground
    \/ BackgroundReturns
    \/ Reset

KernelSpec == KernelSpecInit /\ [][KernelNext]_vars

\* The kernel of the module's example usage: PersistentKernel(imports="import math").
ExampleInit ==
    /\ AgentInit(<<>>)
    /\ KernelInit(EmptyNamespace, "import m")

\* That kernel, where time passes and the caller's thread is scheduled.
FairKernelSpec ==
    /\ ExampleInit
    /\ [][KernelNext]_vars
    /\ WF_vars(Tick)
    /\ WF_vars(ExecuteReturns)

\* The dispatch of a code_execution request whose arguments are an object with
\* a code string, up to the join inside kernel.execute(code): display, parse,
\* tool_args["kernel"] = self.kernel, code_execution(**tool_args).
CodeExecutionCalls ==
    /\ pc = "tools"
    /\ pending[idx].name = "code_execution"
    /\ pending[idx].arguments = "object"
    /\ "code_execution" \in ToolFunctions
    /\ \E code \in ToolCodes : ExecuteStarts(code)
    /\ pc' = "kernel"
    /\ lastDispatch' = [call |-> pending[idx], invoked |-> TRUE,
                        outcome |-> NoDispatch.outcome, raised |-> "none",
                        kernel |-> LiveKernel]
    /\ UNCHANGED <<initial, messages, pending, idx, nextId, queries, ended, ret,
                   faulted>>

\* kernel.execute returns, code_execution returns its text, the tool message is
\* appended and the loop goes on.
CodeExecutionReturns ==
    /\ pc = "kernel"
    /\ ExecuteEnds
    /\ messages' = AppendToolMessage(messages,
                       Response(pending[idx], CodeExecution(result')))
    /\ IF idx = Len(pending)
       THEN pc' = "api" /\ pending' = <<>> /\ idx' = 0
       ELSE pc' = "tools" /\ pending' = pending /\ idx' = idx + 1
    /\ UNCHANGED <<initial, nextId, queries, ended, ret, lastDispatch, faulted>>

\* The completion service asks for code_execution with an argument object.
KernelCompletionReturns == CompletionReturnsOf({"code_execution"}, {"object"})

AgentKernelNext ==
    \/ Query
    \/ KernelCompletionReturns
    \/ CodeExecutionCalls
    \/ ThreadStep
    \/ Tick
    \/ CodeExecutionReturns

\* The agent of main.py with its tool on its kernel.
AgentKernelSpec == Init /\ [][AgentKernelNext]_vars

\* A dispatch in which the callable, if one is entered, returns.
DispatchReturning ==
    /\ DispatchToolCall
    /\ lastDispatch'.outcome.kind # "raise"

ReturningNext ==
    \/ Query
    \/ CompletionReturns
    \/ DispatchReturning

\* The agent of main.py where every completion request and every tool
\* invocation returns, and the thread of query() keeps running; the service
\* runs out of tool requests after MaxRequests of them.
ReturningSpec ==
    /\ Init
    /\ [][ReturningNext]_vars
    /\ WF_vars(CompletionReturns)
    /\ WF_vars(DispatchReturning)

\* The completion service asks for any tool with an argument object.
InjectionCompletionReturns == CompletionReturnsOf(ToolNames, InjectionPayloads)

InjectionNext ==
    \/ Query
    \/ InjectionCompletionReturns
    \/ DispatchToolCall

\* The agent of main.py where every request carries an argument object.
InjectionSpec == Init /\ [][InjectionNext]_vars

Next ==
    \/ Query
    \/ CompletionReturns
    \/ DispatchToolCall

Spec == Init /\ [][Next]_vars

SessionNext ==
    \/ Query
    \/ SessionCompletionReturns
    \/ DispatchToolCall

SessionSpec == SessionInit /\ [][SessionNext]_vars

\* ------------------------------------------------------- claims: Agent
SystemCount(msgs) ==
    Cardinality({ i \in 1..Len(msgs) : msgs[i].role = "system" })

\* Positions of the assistant messages that carry tool requests.
ToolTurns ==
    { k \in 1..Len(messages) :
        messages[k].role = "assistant" /\ messages[k].tool_calls # <<>> }

\* Number of tool messages directly after position k.
ToolRun(k) ==
    CHOOSE m \in 0..(Len(messages) - k) :
        /\ \A i \in 1..m : messages[k + i].role = "tool"
        /\ k + m = Len(messages) \/ messages[k + m + 1].role # "tool"

\* The i-th message after position k answers the i-th request of position k.
Answers(k, i) ==
    /\ messages[k + i].role = "tool"
    /\ messages[k + i].tool_call_id = messages[k].tool_calls[i].id
    /\ messages[k + i].name = messages[k].tool_calls[i].name

\* The turn at position k is the one _process_tool_calls is working on.
InProgress(k) == pc = "tools" /\ k = Len(messages) - (idx - 1)

\* C1: once query has been called (any number of times, on any initial
\* history, also after a query that ended by a propagated fault), the history
\* is non-empty and its first message has role system.
C1_FirstIsSystem ==
    queries >= 1 => Len(messages) >= 1 /\ messages[1].role = "system"

C1_Witness ==
    /\ queries = 2
    /\ faulted # {}
    /\ Len(initial) >= 1 /\ initial[1].role # "system"
    /\ messages[1].role = "system"

\* C2 as stated: after any number of query calls on any initial history,
\* exactly one message with role system exists.
C2_ExactlyOneSystem ==
    queries >= 1 => SystemCount(messages) = 1

\* C2 amended: query adds a system message at most once per session: the
\* history holds the system messages of the initial history, plus one leading
\* system message if the initial history was empty or did not start with one.
C2_SystemInsertedAtMostOnce ==
    queries >= 1 =>
        /\ SystemCount(messages) =
              SystemCount(initial)
              + (IF initial = <<>> \/ initial[1].role # "system" THEN 1 ELSE 0)
        /\ (\A i \in 2..Len(initial) : initial[i].role # "system")
              => SystemCount(messages) = 1

C2_Witness ==
    /\ queries = 2
    /\ pc = "idle"
    /\ Len(initial) >= 1 /\ initial[1].role # "system"
    /\ SystemCount(initial) = 0
    /\ SystemCount(messages) = 1

\* C3 as stated: at every completion request, every assistant turn carrying
\* n >= 1 requests is directly followed by exactly n tool messages, the i-th
\* carrying the id and the name of the i-th request.
C3_AllRequestsAnsweredInOrder ==
    pc = "api" =>
        \A k \in ToolTurns :
            /\ ToolRun(k) = Len(messages[k].tool_calls)
            /\ \A i \in 1..Len(messages[k].tool_calls) : Answers(k, i)

\* C3 amended: the tool messages directly after an assistant turn answer, in
\* order, a prefix of its requests; all n are there whenever the same query has
\* gone on to a completion request; fewer than n are there only while the turn
\* is being dispatched, or where the dispatch of the next request let a fault
\* escape and ended the query.
C3_AnsweredPrefixInOrder ==
    \A k \in ToolTurns :
        LET n == Len(messages[k].tool_calls)
            m == ToolRun(k)
        IN
        /\ m <= n
        /\ \A i \in 1..m : Answers(k, i)
        /\ m < n =>
              \/ InProgress(k) /\ m = idx - 1
              \/ messages[k].tool_calls[m + 1].id \in faulted
        /\ (pc = "api" /\ \A j \in (k + 1)..Len(messages) : messages[j].role # "user")
              => m = n

C3_Witness ==
    /\ pc = "api"
    /\ \E k \in ToolTurns :
          /\ Len(messages[k].tool_calls) = 2
          /\ ToolRun(k) = 2
          /\ messages[k + 1].content = ParseErrorText
          /\ messages[k + 2].content # ParseErrorText

\* C4: at every completion request, every tool request carried by an
\* assistant message of the history is answered by exactly one tool message
\* with the same tool_call_id.
C4_PairingAtEveryCompletionRequest ==
    pc = "api" =>
        \A k \in ToolTurns :
            \A i \in 1..Len(messages[k].tool_calls) :
                Cardinality({ j \in 1..Len(messages) :
                    /\ messages[j].role = "tool"
                    /\ messages[j].tool_call_id = messages[k].tool_calls[i].id }) = 1

\* C10: a fault raised by a registered tool's callable that is a TypeError,
\* ValueError, AttributeError or RuntimeError becomes the content
\* "Error executing tool '<name>': <detail>" of the request's tool message and
\* the query goes on; any other fault escapes from query, no tool message is
\* appended for the request and the history is left as it was.
C10_ClosedSetOfCaughtFaults ==
    [][ (lastDispatch' # lastDispatch /\ lastDispatch'.invoked
            /\ lastDispatch'.outcome.kind = "raise")
        =>
        LET call == lastDispatch'.call
            fault == lastDispatch'.outcome.fault
        IN
        /\ call.name \in ToolFunctions
        /\ IF BaseClass(fault) \in
                {"TypeError", "ValueError", "AttributeError", "RuntimeError"}
           THEN /\ messages' = Append(messages,
                      [role |-> "tool",
                       content |-> <<"Error executing tool '", call.name, "': ",
                                     "<detail>">>,
                       tool_calls |-> <<>>, tool_call_id |-> call.id,
                       name |-> call.name])
                /\ pc' \in {"tools", "api"}
                /\ pc' = "tools" => idx' = idx + 1
                /\ ended' = "none"
                /\ faulted' = faulted
           ELSE /\ messages' = messages
                /\ pc' = "idle"
                /\ ended' = "fault"
    ]_vars

C10_Witness ==
    /\ ended = "fault"
    /\ lastDispatch.invoked
    /\ lastDispatch.raised = "KeyError"
    /\ messages[Len(messages)].role = "tool"
    /\ messages[Len(messages)].content =
          ExecErrorText(messages[Len(messages)].name)

\* A dispatch has just been made (no completion request or query since).
Dispatched == lastDispatch # NoDispatch

LastMessage == messages[Len(messages)]

\* The names of the tools the Agent was constructed with.
Registered == { Tools[i].name : i \in 1..Len(Tools) }

\* The loop goes on after the dispatch: to the next request of the turn, or to
\* the next completion request.
LoopGoesOn ==
    /\ ended # "fault"
    /\ \/ pc = "tools" /\ idx \in 2..Len(pending)
          /\ pending[idx - 1] = lastDispatch.call
       \/ pc = "api"

\* C11: a tool request (any tool name, code_execution included) whose argument
\* payload is not an argument object (malformed text, or well-formed data
\* that is not an object) never aborts the query: no callable is invoked with
\* it, a tool message whose content starts with "Error parsing tool
\* arguments:" is appended for it, and the loop goes on to its siblings.
C11_ArgumentHandlingNeverAborts ==
    (Dispatched /\ lastDispatch.call.arguments # "object") =>
        /\ ~lastDispatch.invoked
        /\ lastDispatch.raised = "none"
        /\ LastMessage.role = "tool"
        /\ LastMessage.tool_call_id = lastDispatch.call.id
        /\ LastMessage.content[1] = "Error parsing tool arguments: "
        /\ LoopGoesOn

\* C12: for a request whose arguments parse and whose tool name is not in the
\* registry, no callable is invoked, the appended tool message has exactly
\* the content "Error: Tool '<name>' not found" and the request's id and
\* name, and the loop goes on to the next request or completion request.
C12_UnknownToolReported ==
    (/\ Dispatched
     /\ JsonLoads(lastDispatch.call.arguments).error = "none"
     /\ lastDispatch.call.name \notin Registered) =>
        /\ ~lastDispatch.invoked
        /\ lastDispatch.raised = "none"
        /\ LastMessage =
              [role |-> "tool",
               content |-> <<"Error: Tool '", lastDispatch.call.name, "' not found">>,
               tool_calls |-> <<>>,
               tool_call_id |-> lastDispatch.call.id,
               name |-> lastDispatch.call.name]
        /\ LoopGoesOn

C12_Witness ==
    /\ Dispatched
    /\ lastDispatch.call.name = "no_such_tool"
    /\ lastDispatch.call.arguments = "object"
    /\ pc = "tools" /\ idx = 2
    /\ pending[2].name = "code_search"
    /\ LastMessage.content = NotFoundText("no_such_tool")

\* query() returns only on an assistant message without tool requests, which
\* is then the last message, with its content (empty text for null) and
\* tool_calls null.
ReturnsFinalAnswer ==
    ended = "return" =>
        /\ pc = "idle"
        /\ LastMessage.role = "assistant"
        /\ LastMessage.tool_calls = <<>>
        /\ ret = [content |-> IF LastMessage.content = PyNone THEN <<>>
                              ELSE LastMessage.content,
                  tool_calls |-> "None"]

\* An assistant message that carries requests makes query() dispatch them.
RequestsAreDispatched ==
    (pc = "api" /\ messages' # messages) =>
        LET m == messages'[Len(messages')] IN
        /\ m.role = "assistant"
        /\ IF m.tool_calls # <<>>
           THEN pc' = "tools" /\ pending' = m.tool_calls /\ idx' = 1
                /\ ended' = "none"
           ELSE pc' = "idle" /\ ended' = "return"

\* The dispatch of a turn goes through its requests and then on to another
\* completion request.
TurnEndsInCompletionRequest ==
    pc = "tools" =>
        \/ pc' = "tools" /\ idx' = idx + 1 /\ idx < Len(pending)
        \/ pc' = "api" /\ idx = Len(pending)

\* The dispatch of a turn is cut short by a fault that escapes from query().
TurnEndsInFault ==
    /\ pc = "tools" /\ pc' = "idle"
    /\ ended' = "fault"
    /\ lastDispatch'.raised # "none"
    /\ messages' = messages
    /\ ret' = ret

\* C13 as stated: query returns only when the last assistant message carries
\* no tool requests (that message is then the last of the history, the
\* returned content is its content, empty text if null, and tool_calls is
\* null); whenever the assistant message carries requests, query does not
\* return but dispatches them and issues another completion request.
C13_ReturnsOnlyWithoutRequests ==
    /\ []ReturnsFinalAnswer
    /\ [][RequestsAreDispatched]_vars
    /\ [][TurnEndsInCompletionRequest]_vars

\* C13 amended: as stated, except that the dispatch of the requests goes on
\* to another completion request only if no dispatch lets a fault escape; a
\* fault that escapes ends query() without a return value and without
\* another completion request.
C13_ReturnsOnlyWithoutRequestsOrFaults ==
    /\ []ReturnsFinalAnswer
    /\ [][RequestsAreDispatched]_vars
    /\ [][TurnEndsInCompletionRequest \/ TurnEndsInFault]_vars

C13_Witness ==
    /\ ended = "return"
    /\ queries = 1
    /\ Len(messages) = 5
    /\ messages[3].tool_calls # <<>>
    /\ messages[4].role = "tool"
    /\ LastMessage.content = PyNone
    /\ ret = [content |-> <<>>, tool_calls |-> "None"]

\* C21: where every completion request and every tool invocation returns and
\* the service eventually answers without tool requests, query eventually
\* returns; until then every turn of requests is followed by another
\* completion request, whatever the number of rounds so far.
C21_QueryEventuallyReturns ==
    /\ [](pc \in {"api", "tools"} => <>(ended = "return"))
    /\ [][(pc = "tools" /\ idx = Len(pending)) => pc' = "api"]_vars

\* C22: a callable entered for a request named code_execution receives the
\* Agent's kernel as its kernel argument, also where the payload has a kernel
\* value of its own; for every other tool name the callable receives no
\* kernel but the payload's own, if any; and no message of the history and no
\* tool projection of a completion request holds the kernel.
C22_KernelInjectedForCodeExecutionOnly ==
    /\ (Dispatched /\ lastDispatch.invoked) =>
          IF lastDispatch.call.name = "code_execution"
          THEN lastDispatch.kernel = "self.kernel"
          ELSE lastDispatch.kernel =
                  (IF lastDispatch.call.arguments = "object with kernel"
                   THEN "kernel of the payload" ELSE "none")
    /\ \A i \in 1..Len(messages) :
          /\ DOMAIN messages[i] =
                {"role", "content", "tool_calls", "tool_call_id", "name"}
          /\ \A j \in 1..Len(messages[i].content) :
                messages[i].content[j] # "self.kernel"
          /\ \A j \in 1..Len(messages[i].tool_calls) :
                /\ DOMAIN messages[i].tool_calls[j] = {"id", "name", "arguments"}
                /\ messages[i].tool_calls[j].arguments # "self.kernel"
    /\ \A i \in DOMAIN CleanTools : DOMAIN CleanTools[i] = {"type", "name"}

C22_Witness ==
    /\ Dispatched /\ lastDispatch.invoked
    /\ lastDispatch.call.name = "code_execution"
    /\ lastDispatch.call.arguments = "object with kernel"
    /\ lastDispatch.kernel = "self.kernel"
    /\ pc = "api"
    /\ LastMessage.role = "tool"
    /\ LastMessage.content = ResultText("code_execution")

\* ------------------------------------------------------ claims: kernel
\* The last kernel call was execute(code) on a string, and it has returned.
ExecuteReturned == kpc = "idle" /\ lastCall.op = "execute" /\ lastCall.thread # 0

\* C5: for code that is not syntactically valid, execute returns success=false
\* with an error describing the syntax defect, and never success=true. (Stated
\* for the calls that did not end by the timeout.)
C5_SyntaxDefectReported ==
    (ExecuteReturned /\ ~lastCall.code.valid /\ result.error # TimeoutText)
        => result.success = FALSE /\ result.error = SyntaxErrorText

\* C6: for valid code whose execution raises a runtime fault before the
\* timeout, execute returns success=false and the fault description as error
\* (with the text emitted before the fault as output).
C6_RuntimeFaultReported ==
    (/\ ExecuteReturned
     /\ lastCall.code.valid
     /\ threads[lastCall.thread].state = "raised"
     /\ result.error # TimeoutText)
        => /\ result.success = FALSE
           /\ result.error = <<threads[lastCall.thread].fault>>

\* C7: the namespace is changed by nothing but the statements of submitted code
\* and reset(): every step that changes it is reset() or an assignment of some
\* thread's code, which binds that name and leaves every other binding; and a
\* print of a bound name emits the value the namespace holds for it.
C7_NamespacePersists ==
    [][ /\ namespace' # namespace =>
              \/ lastCall'.op = "reset" /\ calls' = calls + 1
              \/ \E t \in 1..Len(threads) :
                    /\ threads[t].pos >= 1
                    /\ threads'[t].pos = threads[t].pos + 1
                    /\ threads[t].code.body[threads[t].pos].op = "assign"
                    /\ namespace' =
                          [namespace EXCEPT
                              ![threads[t].code.body[threads[t].pos].name] =
                                  threads[t].code.body[threads[t].pos].val]
        /\ \A t \in 1..Len(threads) :
              (/\ threads[t].pos >= 1
               /\ threads'[t].pos = threads[t].pos + 1
               /\ threads[t].code.body[threads[t].pos].op = "print")
                  => LET item == [by |-> t, text |->
                             namespace[threads[t].code.body[threads[t].pos].name]]
                     IN
                     /\ item.text # Unbound
                     /\ \/ captured' = Append(captured, item) /\ console' = console
                        \/ console' = Append(console, item) /\ captured' = captured
    ]_vars

C7_Witness ==
    /\ ExecuteReturned
    /\ Len(threads) = 2
    /\ threads[1].code = CodeAssign /\ threads[1].kind = "execute"
    /\ lastCall.code = CodePrint
    /\ result.success
    /\ result.output = <<[by |-> 2, text |-> "2"]>>

\* The thread of the last call runs code that never terminates.
NeverTerminates(t) ==
    /\ threads[t].state = "running"
    /\ threads[t].pos >= 1
    /\ threads[t].code.body[threads[t].pos].op = "spin"

\* C8: execute never blocks indefinitely (a call that waits in join returns),
\* and for code that never terminates it returns when the timeout has expired,
\* with success=false, the timeout as error and the text captured up to then
\* as output.
C8_TimeoutReturns ==
    /\ [](kpc = "join" => <>(kpc = "idle"))
    /\ [][ (kpc = "join" /\ kpc' = "idle" /\ NeverTerminates(cur))
            => /\ elapsed = Timeout
               /\ result' = [success |-> FALSE, output |-> captured,
                             error |-> <<"Execution timed out after ",
                                         "<timeout>", " seconds">>]
       ]_vars

C8_Witness ==
    /\ ExecuteReturned
    /\ NeverTerminates(lastCall.thread)
    /\ result.success = FALSE
    /\ result.output = <<[by |-> lastCall.thread, text |-> "<module m>"]>>

\* C9: execute_background returns the fixed acknowledgment for every code,
\* whatever the code's thread has done or does.
C9_BackgroundAlwaysAcknowledges ==
    (kpc = "idle" /\ lastCall.op = "execute_background")
        => result = [success |-> TRUE,
                     output |-> <<[by |-> 0, text |->
                                      "Code started in background thread"]>>,
                     error |-> <<"<None>">>]

C9_Witness ==
    /\ kpc = "idle"
    /\ calls = 2
    /\ lastCall.op = "execute_background"
    /\ Len(threads) = 2
    /\ threads[1].kind = "background" /\ threads[1].state = "raised"
    /\ threads[1].fault = "SyntaxError"
    /\ threads[2].kind = "background" /\ NeverTerminates(2)
    /\ result.success

\* The items of a text that thread t wrote.
By(items, t) == SelectSeq(items, LAMBDA it : it.by = t)

\* Number of print statements thread t has executed.
Printed(t) ==
    Cardinality({ i \in 1..(threads[t].pos - 1) :
                    threads[t].code.body[i].op = "print" })

\* C14: whatever the earlier execute calls ended in (syntax defect, runtime
\* fault, timeout), the kernel remains usable: between calls the output stream
\* is the process's own again, and an execute of code that ends before the
\* timeout returns success=true with the text that code printed; the code runs
\* in the namespace the failed call left (x = 1 of a call that then raised is
\* printed by the next call).
C14_KernelStaysUsable ==
    /\ kpc = "idle" => stdout = "process"
    /\ (/\ ExecuteReturned
        /\ result.error # TimeoutText
        /\ threads[lastCall.thread].state = "done") =>
           /\ result.success
           /\ result.error = NoneValue
           /\ Len(By(result.output, lastCall.thread)) = Printed(lastCall.thread)
    /\ (/\ ExecuteReturned
        /\ calls = 2 /\ Len(threads) = 2
        /\ threads[1].code = CodeRaise /\ threads[1].state = "raised"
        /\ threads[2].code = CodePrint /\ threads[2].state = "done"
        /\ result.error # TimeoutText) =>
           By(result.output, 2) = <<[by |-> 2, text |-> "1"]>>

C14_Witness ==
    /\ ExecuteReturned
    /\ calls = 2 /\ Len(threads) = 2
    /\ threads[1].kind = "execute"
    /\ threads[1].code = CodeRaise /\ threads[1].state = "raised"
    /\ threads[2].code = CodePrint /\ threads[2].state = "done"
    /\ stdout = "process"
    /\ result = [success |-> TRUE, output |-> <<[by |-> 2, text |-> "1"]>>,
                 error |-> NoneValue]

\* The step is a call of reset().
ResetStep == lastCall'.op = "reset" /\ calls' = calls + 1

\* The bindings the bootstrap string makes in an empty namespace.
BootstrapOnly ==
    [n \in Names |-> IF imports # "" /\ n = "m" THEN "<module m>" ELSE "<unbound>"]

\* C16 as stated: for every initial namespace and bootstrap string, after
\* reset() the namespace equals the namespace as it stood when construction
\* finished (initial contents plus the effects of the bootstrap).
C16_ResetRestoresConstruction ==
    [][ResetStep => namespace' = baseline]_vars

\* C16 amended: reset() leaves exactly the bindings the bootstrap makes in an
\* empty namespace: every binding made by later calls is removed, and so is
\* every binding of the initial namespace; the result equals the namespace at
\* the end of construction exactly when the initial namespace held nothing
\* but what the bootstrap binds.
C16_ResetLeavesBootstrapOnly ==
    [][ResetStep =>
          /\ namespace' = BootstrapOnly
          /\ (namespace' = baseline) <=>
                (\A n \in Names : baseline[n] # Unbound => BootstrapOnly[n] # Unbound)
       ]_vars

C16_Witness ==
    /\ kpc = "idle"
    /\ lastCall.op = "reset" /\ calls = 2
    /\ Len(threads) = 1
    /\ threads[1].code = CodeAssign /\ threads[1].state = "done"
    /\ imports # ""
    /\ baseline["f"] # Unbound
    /\ namespace = BootstrapOnly
    /\ namespace["f"] = Unbound /\ namespace["x"] = Unbound
    /\ namespace["m"] # Unbound

\* C17: a timed-out execution is not terminated: the return of execute leaves
\* every thread as it is (the thread still alive at the return goes on
\* running, and the result is the timeout), and the namespace changes while no
\* kernel call is in progress only by a statement of a thread that is still
\* running.
C17_TimedOutUnitKeepsRunning ==
    /\ [][ (kpc = "join" /\ kpc' = "idle") =>
              /\ threads' = threads
              /\ IsAlive(cur) =>
                    /\ result'.error = TimeoutText
                    /\ threads'[cur].state = "running"
         ]_vars
    /\ [][ (kpc = "idle" /\ kpc' = "idle" /\ calls' = calls
              /\ namespace' # namespace) =>
              \E t \in 1..Len(threads) :
                  /\ threads[t].state = "running"
                  /\ threads'[t].pos = threads[t].pos + 1
         ]_vars

\* The unit of a timed-out execute has bound x after reset() cleared the
\* namespace, i.e. after its call returned, and no call is in progress.
C17_Witness ==
    /\ kpc = "idle"
    /\ calls = 2 /\ lastCall.op = "reset"
    /\ Len(threads) = 1
    /\ threads[1].kind = "execute" /\ threads[1].code = CodeRaise
    /\ result.error = TimeoutText
    /\ namespace["x"] = "1"

\* C19 as stated: the output returned by execute is exactly the text emitted
\* by the code submitted in that call: no text of another execution unit is in
\* it, and none of the call's text is on the process's own stream.
C19_OutputIsOwnTextOnly ==
    ExecuteReturned =>
        /\ By(result.output, lastCall.thread) = result.output
        /\ result.error # TimeoutText => By(console, lastCall.thread) = <<>>

\* C19 amended: the output returned by execute is all the text written to
\* sys.stdout while the call was in progress, by any thread: the text of the
\* call's own code, and the text that background threads and threads of
\* earlier timed-out calls emit during the call. None of the text emitted
\* during the call goes to the process's own stream.
C19_OutputIsAllTextDuringCall ==
    /\ [][kpc = "join" => console' = console]_vars
    /\ [][(kpc = "join" /\ kpc' = "idle") => result'.output = captured]_vars
    /\ [][(kpc = "join" /\ kpc' = "join") =>
             \A t \in 1..Len(threads) :
                 (/\ threads[t].pos >= 1
                  /\ threads'[t].pos = threads[t].pos + 1
                  /\ threads[t].code.body[threads[t].pos].op = "print") =>
                     captured' = Append(captured,
                         [by |-> t,
                          text |-> namespace[threads[t].code.body[threads[t].pos].name]])
         ]_vars
    /\ [](ExecuteReturned /\ result.error # TimeoutText =>
             /\ Len(By(result.output, lastCall.thread)) = Printed(lastCall.thread)
             /\ By(console, lastCall.thread) = <<>>)

C19_Witness ==
    /\ ExecuteReturned
    /\ Len(threads) = 2
    /\ threads[1].kind = "background"
    /\ threads[2].code = CodeAssign
    /\ result.success
    /\ result.output = <<[by |-> 1, text |-> "Background execution error"]>>

\* C20: on return from every execute_background call the tracking collection
\* holds exactly the background threads started so far that are still
\* running, in the order of their start, and none that has ended.
C20_TrackedAreTheLiveBackgroundThreads ==
    [][ (kpc = "sleep" /\ kpc' = "idle") =>
          /\ \A t \in 1..Len(threads') :
                (threads'[t].kind = "background" /\ threads'[t].state = "running")
                  <=> (\E i \in 1..Len(background_threads') :
                          background_threads'[i] = t)
          /\ \A i, j \in 1..Len(background_threads') :
                i < j => background_threads'[i] < background_threads'[j]
      ]_vars

C20_Witness ==
    /\ kpc = "idle"
    /\ lastCall.op = "execute_background"
    /\ Len(threads) = 2
    /\ threads[1].kind = "background" /\ threads[1].state = "done"
    /\ threads[2].kind = "background" /\ threads[2].state = "running"
    /\ background_threads = <<2>>

\* ------------------------------------------- claims: agent and kernel
\* C15: code passed to the code_execution tool that contains serve() calls is
\* started through the kernel's background execution, not as a synchronous
\* execute subject to the timeout.
C15_ServeStartedInBackground ==
    (lastCall.op # "none" /\ lastCall.code.text = "serve()")
        => lastCall.op = "execute_background"

Running == { t \in 1..Len(threads) : threads[t].state = "running" }

\* C18 as stated: driven by one Agent, at most one execution of submitted
\* code runs against the namespace at any time: no kernel call is started
\* while an execution started by an earlier call is still in flight.
C18_AtMostOneExecutionRuns ==
    Cardinality(Running) <= 1

\* C18 amended: the Agent's kernel calls are strictly sequential (a call is
\* started only while no call is in progress, and the Agent waits in it), but
\* the executions are not: a thread survives its call only when the call
\* timed out, and it then runs on beside the threads of later calls.
C18_AtMostOneCallInProgress ==
    /\ [](kpc # "idle" <=> pc = "kernel")
    /\ [](kpc # "idle" => cur = Len(threads))
    /\ [][ Len(threads') # Len(threads) =>
              /\ kpc = "idle" /\ pc = "tools"
              /\ kpc' = "join" /\ pc' = "kernel"
              /\ Len(threads') = Len(threads) + 1
         ]_vars
    /\ [][ (kpc = "join" /\ kpc' = "idle" /\ IsAlive(cur)) =>
              /\ elapsed = Timeout
              /\ result'.error = TimeoutText
              /\ messages'[Len(messages')].content = <<"Error: ">> \o TimeoutText
         ]_vars

C18_Witness ==
    /\ pc = "kernel" /\ kpc = "join"
    /\ Len(threads) = 2 /\ cur = 2
    /\ threads[1].code = CodeServe
    /\ Running = {1, 2}
    /\ messages[Len(messages)].content = <<"Error: ">> \o TimeoutText

====
